---------------------------- MODULE Spec2Model ----------------------------
(***************************************************************************)
(* ManifestArray (virtualizarr/manifests/array.py): a virtual array that   *)
(* pairs a ZArray metadata descriptor with a ChunkManifest, the registry   *)
(* of array functions it handles, concatenate and its three compatibility  *)
(* checks, result_type, and the operations it refuses.                     *)
(*                                                                         *)
(* Python values are modelled as follows.  None is the empty tuple and a   *)
(* present optional value x is <<x>>.  A call's outcome is a record: kind  *)
(* is "return" or "raise", exc the exception class, raised_by the function *)
(* whose raise statement ran, values the values formatted into the         *)
(* message, calls the functions of this package entered, in order.         *)
(***************************************************************************)
EXTENDS Integers, Sequences, FiniteSets, TLC

\* Most ManifestArray objects alive at once.
MaxArrays == 2
\* Most operands of one concatenate or result_type call.
MaxGroup == 2

None == <<>>
Some(x) == <<x>>
Val(o) == o[1]

Range(s) == {s[i] : i \in 1..Len(s)}

SeqsUpTo(S, n) == UNION {[1..k -> S] : k \in 0..n}

(***************************************************************************)
(* Collaborators outside this file: ZArray and Codec (..zarr), and         *)
(* ChunkManifest and concat_manifests (.manifest).                         *)
(***************************************************************************)

\* A ZArray: shape, chunks, dtype (a dtype string), codec.
ZArray(shape, chunks, dtype, codec) ==
    [shape |-> shape, chunks |-> chunks, dtype |-> dtype, codec |-> codec]

CeilDiv(a, b) == (a + b - 1) \div b

\* A ChunkManifest, by the shape of its chunk grid.
ChunkManifest(grid_shape) == [grid_shape |-> grid_shape]

\* The manifest a loader builds for a ZArray: one entry per chunk.
ManifestOf(zarray) ==
    ChunkManifest([i \in 1..Len(zarray.shape) |->
                      CeilDiv(zarray.shape[i], zarray.chunks[i])])

\* The ZArrays a loader hands over.
LoaderOutputs ==
    { ZArray(<<3, 4>>, <<3, 4>>, "float64", "zlib"),
      ZArray(<<5, 4>>, <<5, 4>>, "float64", "zlib"),
      ZArray(<<3, 4>>, <<3, 4>>, "int32", "zlib"),
      ZArray(<<3, 5>>, <<3, 5>>, "<f8", "zlib"),
      ZArray(<<3, 4>>, <<3, 4>>, "float64", "blosc"),
      ZArray(<<3>>, <<2>>, "float64", "zlib"),
      ZArray(<<4, 4>>, <<2, 2>>, "float64", "zlib"),
      ZArray(<<4194304, 4194304, 4194304>>, <<4194304, 4194304, 4194304>>,
             "float64", "zlib"),
      ZArray(<<65536, 65536>>, <<65536, 65536>>, "int32", "zlib"),
      ZArray(<<>>, <<>>, "float64", "zlib") }

\* The dtype-like values callers pass, and np.dtype's conversion of them.
DtypeLikes == {"float64", "<f8", "int32", "<i4"}

np_dtype(obj) ==
    CASE obj \in {"float64", "<f8", "f8"} -> "float64"
      [] obj \in {"int32", "<i4", "i4"} -> "int32"
      [] OTHER -> obj

(***************************************************************************)
(* Python sequence indexing: position pos of a sequence of length n is     *)
(* valid when -n <= pos < n, a negative pos counting from the end.         *)
(***************************************************************************)
IndexInRange(t, pos) == -Len(t) <= pos /\ pos < Len(t)

PyIndex(t, pos) == IF pos < 0 THEN Len(t) + pos + 1 ELSE pos + 1

Sum(s) ==
    LET F[i \in 0..Len(s)] == IF i = 0 THEN 0 ELSE F[i - 1] + s[i]
    IN  F[Len(s)]

(***************************************************************************)
(* Outcomes.                                                               *)
(***************************************************************************)
Outcome(kind, exc, raised_by, values, calls, value_type, array, dtype, size) ==
    [kind |-> kind, exc |-> exc, raised_by |-> raised_by, values |-> values,
     calls |-> calls, value_type |-> value_type, array |-> array,
     dtype |-> dtype, size |-> size]

Raise(exc, raised_by, values, calls) ==
    Outcome("raise", exc, raised_by, values, calls, "", None, "", None)

ReturnNone(calls) ==
    Outcome("return", "", "", <<>>, calls, "None", None, "", None)

ReturnNotImplemented(calls) ==
    Outcome("return", "", "", <<>>, calls, "NotImplemented", None, "", None)

ReturnArray(arr, calls) ==
    Outcome("return", "", "", <<>>, calls, "ManifestArray", Some(arr), "", None)

ReturnDtype(dt, calls) ==
    Outcome("return", "", "", <<>>, calls, "dtype", None, dt, None)

ReturnInt(n, calls) ==
    Outcome("return", "", "", <<>>, calls, "int", None, "", Some(n))

Raised(o) == o.kind = "raise"

(***************************************************************************)
(* ManifestArray and its properties.  A property of an array whose _zarray *)
(* is None raises AttributeError; HasZArray guards those reads.            *)
(***************************************************************************)
ManifestArray(zarray, chunkmanifest) ==
    [manifest |-> chunkmanifest, zarray |-> zarray]

HasZArray(arr) == arr.zarray # None

chunks(arr) == Val(arr.zarray).chunks

dtype(arr) == np_dtype(Val(arr.zarray).dtype)

shape(arr) == Val(arr.zarray).shape

ndim(arr) == Len(shape(arr))


(***************************************************************************)
(* size is np.prod(self.shape).  numpy multiplies in its default integer   *)
(* type, 64 bits wide and signed, and wraps on overflow; the product of no *)
(* dimensions is 1.  Integers wider than TLC's own are little-endian       *)
(* sequences of bytes, negative ones in two's complement.                  *)
(***************************************************************************)
IntWidths == {64}

\* n, 0 <= n < 2^31, as k bytes.
ToBytes(n, k) ==
    [i \in 1..k |-> IF i <= 4 THEN (n \div (256 ^ (i - 1))) % 256 ELSE 0]

\* a * b modulo 256^k, for a and b of k bytes each.
MulBytes(a, b, k) ==
    LET raw == [i \in 1..k |-> Sum([j \in 1..i |-> a[j] * b[i - j + 1]])]
        Carry[i \in 0..k] ==
            IF i = 0 THEN 0 ELSE (raw[i] + Carry[i - 1]) \div 256
    IN  [i \in 1..k |-> (raw[i] + Carry[i - 1]) % 256]

\* The k-byte two's complement number, sign-extended to n >= k bytes.
SignExtend(bytes, n) ==
    LET k == Len(bytes)
    IN  [i \in 1..n |-> IF i <= k THEN bytes[i]
                        ELSE IF bytes[k] >= 128 THEN 255 ELSE 0]

\* np.prod over a tuple of Python ints, in a signed integer of `bits` bits.
np_prod(dims, bits) ==
    LET k == bits \div 8
        Acc[i \in 0..Len(dims)] ==
            IF i = 0 THEN ToBytes(1, k)
            ELSE MulBytes(Acc[i - 1], ToBytes(dims[i], k), k)
    IN  SignExtend(Acc[Len(dims)], 16)

size(arr, bits) ==
    IF ~HasZArray(arr) THEN Raise("AttributeError", "shape", <<>>, <<"size">>)
    ELSE ReturnInt(np_prod(shape(arr), bits), <<"size">>)

(***************************************************************************)
(* The operations a ManifestArray refuses.                                 *)
(***************************************************************************)
T(arr) == Raise("NotImplementedError", "T", <<>>, <<"T">>)

to_zarr(arr) == Raise("NotImplementedError", "to_zarr", <<>>, <<"to_zarr">>)

\* A variant of __array_ufunc__ that raises, as the other refusals do.
array_ufunc_raises(arr) ==
    Raise("NotImplementedError", "__array_ufunc__", <<>>,
          <<"__array_ufunc__">>)

__array_ufunc__(arr) == ReturnNotImplemented(<<"__array_ufunc__">>)

__array__(arr) ==
    Raise("NotImplementedError", "__array__", <<>>, <<"__array__">>)

(***************************************************************************)
(* The compatibility checks.  Each unpacks its first element, which fails  *)
(* with ValueError on an empty list, and raises at the first later element *)
(* that differs from it.                                                   *)
(***************************************************************************)
FirstDiffering(xs) ==
    CHOOSE i \in 2..Len(xs) :
        /\ xs[i] # xs[1]
        /\ \A j \in 2..(i - 1) : xs[j] = xs[1]

SomeDiffers(xs) == \E i \in 2..Len(xs) : xs[i] # xs[1]

_check_same_dtypes(dtypes) ==
    IF Len(dtypes) = 0
    THEN Raise("ValueError", "unpack", <<>>, <<>>)
    ELSE IF SomeDiffers(dtypes)
    THEN Raise("ValueError", "_check_same_dtypes",
               <<dtypes[FirstDiffering(dtypes)], dtypes[1]>>, <<>>)
    ELSE ReturnNone(<<>>)

\* A variant of _remove_element_at_position that pops the first element.
remove_first_element(t, pos) == [i \in 1..(Len(t) - 1) |-> t[i + 1]]

_remove_element_at_position(t, pos) ==
    LET k == PyIndex(t, pos)
    IN  [i \in 1..(Len(t) - 1) |-> IF i < k THEN t[i] ELSE t[i + 1]]

_check_same_shapes_except_on_concat_axis(shapes, axis) ==
    IF \E i \in 1..Len(shapes) : ~IndexInRange(shapes[i], axis)
    THEN Raise("IndexError", "_remove_element_at_position", <<>>, <<>>)
    ELSE IF Len(shapes) = 0
    THEN Raise("ValueError", "unpack", <<>>, <<>>)
    ELSE LET shapes_without_concat_axis ==
                 [i \in 1..Len(shapes) |->
                     _remove_element_at_position(shapes[i], axis)]
         IN  IF SomeDiffers(shapes_without_concat_axis)
             THEN Raise("ValueError",
                        "_check_same_shapes_except_on_concat_axis",
                        shapes, <<>>)
             ELSE ReturnNone(<<>>)

\* A variant of _check_same_codecs whose loop never raises.
check_same_codecs_skipped(codecs) == ReturnNone(<<>>)

_check_same_codecs(codecs) ==
    IF Len(codecs) = 0
    THEN Raise("ValueError", "unpack", <<>>, <<>>)
    ELSE IF SomeDiffers(codecs)
    THEN Raise("NotImplementedError", "_check_same_codecs",
               <<codecs[1], codecs[FirstDiffering(codecs)]>>, <<>>)
    ELSE ReturnNone(<<>>)

(***************************************************************************)
(* concat_manifests (.manifest): the inputs are a non-empty list of        *)
(* manifests of equal rank, axis is a dimension index 0 <= axis < rank     *)
(* (negative axes are not normalised) and the grids agree off the axis;    *)
(* the result's grid is the first one with the axis summed.  A violated    *)
(* precondition fails loudly.                                              *)
(***************************************************************************)
MergeFailed(exc) == [exc |-> exc, manifest |-> None]

Merged(manifest) == [exc |-> "", manifest |-> Some(manifest)]

concat_manifests(manifests, axis) ==
    IF Len(manifests) = 0 THEN MergeFailed("ValueError")
    ELSE LET first == manifests[1].grid_shape
             rank == Len(first)
         IN  IF \E i \in 1..Len(manifests) :
                    Len(manifests[i].grid_shape) # rank
             THEN MergeFailed("ValueError")
             ELSE IF ~(0 <= axis /\ axis < rank)
             THEN MergeFailed("ValueError")
             ELSE IF \E i \in 1..Len(manifests) : \E d \in 1..rank :
                        /\ d # axis + 1
                        /\ manifests[i].grid_shape[d] # first[d]
             THEN MergeFailed("ValueError")
             ELSE Merged(ChunkManifest(
                      [first EXCEPT ![axis + 1] =
                          Sum([i \in 1..Len(manifests) |->
                                  manifests[i].grid_shape[axis + 1]])]))

(***************************************************************************)
(* concatenate.  The shape it computes for the result is overwritten by    *)
(* the Ellipsis object before _replace_shape is called, and _replace_shape *)
(* has no body but `...`, so it returns None whatever it is given.         *)
(***************************************************************************)
Ellipsis == <<"Ellipsis">>

_replace_shape(zarray, new_shape) == None

\* concatenate from its first check on, for an axis that is an integer.
concatenate_along(arrays, ax) ==
    IF \E i \in 1..Len(arrays) : ~HasZArray(arrays[i])
    THEN Raise("AttributeError", "dtype", <<>>, <<"concatenate">>)
    ELSE
    LET n == Len(arrays)
        dtypes == [i \in 1..n |-> dtype(arrays[i])]
        shapes == [i \in 1..n |-> shape(arrays[i])]
        codecs == [i \in 1..n |-> Val(arrays[i].zarray).codec]
        calls1 == <<"concatenate", "_check_same_dtypes">>
        calls2 == Append(calls1, "_check_same_shapes_except_on_concat_axis")
        calls3 == Append(calls2, "_check_same_codecs")
        calls4 == Append(calls3, "concat_manifests")
        calls5 == Append(calls4, "_replace_shape")
        calls6 == Append(calls5, "ManifestArray")
        checked_dtypes == _check_same_dtypes(dtypes)
        checked_shapes == _check_same_shapes_except_on_concat_axis(shapes, ax)
        checked_codecs == _check_same_codecs(codecs)
    IN  IF Raised(checked_dtypes)
        THEN [checked_dtypes EXCEPT !.calls = calls1]
        ELSE IF Raised(checked_shapes)
        THEN [checked_shapes EXCEPT !.calls = calls2]
        ELSE IF Raised(checked_codecs)
        THEN [checked_codecs EXCEPT !.calls = calls3]
        ELSE
        LET new_length_along_concat_axis ==
                Sum([i \in 1..n |-> shapes[i][PyIndex(shapes[i], ax)]])
            first_shape == shapes[1]
            computed_shape ==
                [first_shape EXCEPT ![PyIndex(first_shape, ax)] =
                    new_length_along_concat_axis]
            concatenated_manifest ==
                concat_manifests([i \in 1..n |-> arrays[i].manifest], ax)
            new_shape == Ellipsis
            new_zarray == _replace_shape(arrays[1].zarray, new_shape)
        IN  IF concatenated_manifest.exc # ""
            THEN Raise(concatenated_manifest.exc, "concat_manifests",
                       <<>>, calls4)
            ELSE ReturnArray(
                     ManifestArray(new_zarray,
                                   Val(concatenated_manifest.manifest)),
                     calls6)

\* A variant of concatenate that takes axis None for the default axis 0.
concatenate_none_as_default(arrays, axis) ==
    concatenate_along(arrays, IF axis = None THEN 0 ELSE Val(axis))

concatenate(arrays, axis) ==
    IF axis = None
    THEN Raise("NotImplementedError", "concatenate", <<>>, <<"concatenate">>)
    ELSE concatenate_along(arrays, Val(axis))

(***************************************************************************)
(* result_type.                                                            *)
(***************************************************************************)
\* A variant of result_type that compares its arguments as given, without
\* converting them with np.dtype.
result_type_unconverted(arrays_and_dtypes) ==
    IF Len(arrays_and_dtypes) = 0
    THEN Raise("ValueError", "unpack", <<>>, <<"result_type">>)
    ELSE IF SomeDiffers(arrays_and_dtypes)
    THEN Raise("ValueError", "result_type", <<>>, <<"result_type">>)
    ELSE ReturnDtype(np_dtype(arrays_and_dtypes[1]), <<"result_type">>)

result_type(arrays_and_dtypes) ==
    LET dts == [i \in 1..Len(arrays_and_dtypes) |->
                   np_dtype(arrays_and_dtypes[i])]
    IN  IF Len(dts) = 0
        THEN Raise("ValueError", "unpack", <<>>, <<"result_type">>)
        ELSE IF SomeDiffers(dts)
        THEN Raise("ValueError", "result_type", <<>>, <<"result_type">>)
        ELSE ReturnDtype(dts[1], <<"result_type">>)

(***************************************************************************)
(* The registry of handled array functions and the dispatch hook.          *)
(***************************************************************************)
NumpyFunctions == {"np.concatenate", "np.result_type", "np.stack"}

Types == {"ManifestArray", "ManifestArraySubclass", "ndarray"}

\* The operand types numpy passes to the hook of a ManifestArray operand.
TypeSets == {{"ManifestArray"}, {"ManifestArray", "ManifestArraySubclass"},
             {"ManifestArray", "ndarray"}}

issubclass(t, cls) ==
    \/ t = cls
    \/ t = "ManifestArraySubclass" /\ cls = "ManifestArray"

implements(registry, numpy_function, func) ==
    [f \in DOMAIN registry \cup {numpy_function} |->
        IF f = numpy_function THEN func ELSE registry[f]]

HANDLED_ARRAY_FUNCTIONS ==
    implements(implements([f \in {} |-> ""], "np.concatenate", "concatenate"),
               "np.result_type", "result_type")

\* HANDLED_ARRAY_FUNCTIONS[func](*args, **kwargs)
CallHandler(handler, args) ==
    IF handler = "concatenate" THEN concatenate(args.arrays, args.axis)
    ELSE result_type(args.dtypes)

\* A variant of __array_function__ without the check of the operand types.
array_function_any_type(func, types, args) ==
    IF func \notin DOMAIN HANDLED_ARRAY_FUNCTIONS
    THEN ReturnNotImplemented(<<>>)
    ELSE CallHandler(HANDLED_ARRAY_FUNCTIONS[func], args)

__array_function__(func, types, args) ==
    IF func \notin DOMAIN HANDLED_ARRAY_FUNCTIONS
    THEN ReturnNotImplemented(<<>>)
    ELSE IF ~(\A t \in types : issubclass(t, "ManifestArray"))
    THEN ReturnNotImplemented(<<>>)
    ELSE CallHandler(HANDLED_ARRAY_FUNCTIONS[func], args)

(***************************************************************************)
(* The state: the ManifestArray objects alive, and the call the caller has *)
(* made and not yet put behind it, with its arguments and outcome.  The    *)
(* caller is sequential: it makes one call, takes the outcome, and goes on.*)
(***************************************************************************)
VARIABLES alive, last

vars == <<alive, last>>

Axes == {None} \cup {Some(a) : a \in -2..2}

Call(op, self, func, types, arrays, axis, dtypes, bits, out) ==
    [op |-> op, self |-> self, func |-> func, types |-> types,
     arrays |-> arrays, axis |-> axis, dtypes |-> dtypes, bits |-> bits,
     out |-> out]

NoCall == Call("", None, "", {}, <<>>, None, <<>>, 0, ReturnNone(<<>>))

\* A returned ManifestArray stays alive while there is room for it.
Keep(out) ==
    IF out.kind = "return" /\ out.value_type = "ManifestArray"
       /\ Cardinality(alive \cup {Val(out.array)}) <= MaxArrays
    THEN alive \cup {Val(out.array)}
    ELSE alive

Init ==
    /\ alive = {}
    /\ last = NoCall

FromKerchunkRefs ==
    /\ last = NoCall
    /\ \E zarray \in LoaderOutputs :
        LET obj == ManifestArray(Some(zarray), ManifestOf(zarray))
        IN  /\ Cardinality(alive \cup {obj}) <= MaxArrays
            /\ alive' = alive \cup {obj}
            /\ last' = Call("from_kerchunk_refs", None, "", {}, <<>>, None,
                            <<>>, 0, ReturnArray(obj, <<"from_kerchunk_refs">>))

Concatenate ==
    /\ last = NoCall
    /\ \E arrays \in SeqsUpTo(alive, MaxGroup) : \E axis \in Axes :
        LET out == concatenate(arrays, axis)
        IN  /\ alive' = Keep(out)
            /\ last' = Call("concatenate", None, "", {}, arrays, axis,
                            <<>>, 0, out)

ResultType ==
    /\ last = NoCall
    /\ \E dtypes \in SeqsUpTo(DtypeLikes, MaxGroup) :
        /\ last' = Call("result_type", None, "", {}, <<>>, None, dtypes, 0,
                        result_type(dtypes))
        /\ UNCHANGED alive

\* numpy calls the hook of an operand with the function, the operand types
\* and the call's own arguments.
Dispatch(func, types, arrays, axis, dtypes) ==
    LET args == [arrays |-> arrays, axis |-> axis, dtypes |-> dtypes]
        out == __array_function__(func, types, args)
    IN  /\ alive' = Keep(out)
        /\ last' = Call("__array_function__", None, func, types,
                        arrays, axis, dtypes, 0, out)

ArrayFunction ==
    /\ last = NoCall
    /\ alive # {}
    /\ \E types \in TypeSets :
        \/ \E func \in NumpyFunctions \ {"np.result_type"} :
           \E arrays \in SeqsUpTo(alive, MaxGroup) : \E axis \in Axes :
               Dispatch(func, types, arrays, axis, <<>>)
        \/ \E dtypes \in SeqsUpTo(DtypeLikes, MaxGroup) :
               Dispatch("np.result_type", types, <<>>, Some(0), dtypes)

\* The checks, each on the list concatenate builds from a group of arrays.
Described == {arr \in alive : HasZArray(arr)}

CheckSameDtypes ==
    /\ last = NoCall
    /\ \E arrays \in SeqsUpTo(Described, MaxGroup) :
        /\ last' = Call("_check_same_dtypes", None, "", {}, arrays, None,
                        <<>>, 0,
                        _check_same_dtypes(
                            [i \in 1..Len(arrays) |-> dtype(arrays[i])]))
        /\ UNCHANGED alive

CheckSameShapes ==
    /\ last = NoCall
    /\ \E arrays \in SeqsUpTo(Described, MaxGroup) :
       \E axis \in Axes \ {None} :
        /\ last' = Call("_check_same_shapes_except_on_concat_axis", None, "",
                        {}, arrays, axis, <<>>, 0,
                        _check_same_shapes_except_on_concat_axis(
                            [i \in 1..Len(arrays) |-> shape(arrays[i])],
                            Val(axis)))
        /\ UNCHANGED alive

CheckSameCodecs ==
    /\ last = NoCall
    /\ \E arrays \in SeqsUpTo(Described, MaxGroup) :
        /\ last' = Call("_check_same_codecs", None, "", {}, arrays, None,
                        <<>>, 0,
                        _check_same_codecs(
                            [i \in 1..Len(arrays) |->
                                Val(arrays[i].zarray).codec]))
        /\ UNCHANGED alive

Size ==
    /\ last = NoCall
    /\ \E self \in alive : \E bits \in IntWidths :
        /\ last' = Call("size", Some(self), "", {}, <<>>, None, <<>>, bits,
                        size(self, bits))
        /\ UNCHANGED alive

Transpose ==
    /\ last = NoCall
    /\ \E self \in alive :
        /\ last' = Call("T", Some(self), "", {}, <<>>, None, <<>>, 0, T(self))
        /\ UNCHANGED alive

ToZarr ==
    /\ last = NoCall
    /\ \E self \in alive :
        /\ last' = Call("to_zarr", Some(self), "", {}, <<>>, None, <<>>, 0,
                        to_zarr(self))
        /\ UNCHANGED alive

ArrayUfunc ==
    /\ last = NoCall
    /\ \E self \in alive :
        /\ last' = Call("__array_ufunc__", Some(self), "", {}, <<>>, None,
                        <<>>, 0, __array_ufunc__(self))
        /\ UNCHANGED alive

Array ==
    /\ last = NoCall
    /\ \E self \in alive :
        /\ last' = Call("__array__", Some(self), "", {}, <<>>, None, <<>>, 0,
                        __array__(self))
        /\ UNCHANGED alive

\* The caller has taken the outcome and is ready for its next call.
Resume ==
    /\ last # NoCall
    /\ last' = NoCall
    /\ UNCHANGED alive

Next ==
    \/ FromKerchunkRefs
    \/ Concatenate
    \/ ResultType
    \/ ArrayFunction
    \/ CheckSameDtypes
    \/ CheckSameShapes
    \/ CheckSameCodecs
    \/ Size
    \/ Transpose
    \/ ToZarr
    \/ ArrayUfunc
    \/ Array
    \/ Resume

Spec == Init /\ [][Next]_vars

(***************************************************************************)
(* Properties.                                                             *)
(***************************************************************************)
Calls(o) == Range(o.calls)

IsConcatenate == last.op = "concatenate"

AllDescribed(arrays) == \A i \in 1..Len(arrays) : HasZArray(arrays[i])

\* The dimension (1-based) that axis names in a shape, 0 when it names none.
AxisDim(s, axis) == IF IndexInRange(s, axis) THEN PyIndex(s, axis) ELSE 0

\* s with the dimension axis names taken out.
OffAxis(s, axis) ==
    LET k == AxisDim(s, axis)
        keep == {d \in 1..Len(s) : d # k}
    IN  [d \in keep |-> s[d]]

\* C1 (as claimed): a concatenate call that returns gives an array whose
\* shape is the first input's shape with the length on the axis replaced by
\* the sum of the inputs' lengths on the axis.
C1_ResultShape ==
    (IsConcatenate /\ last.out.kind = "return") =>
        LET result == Val(last.out.array)
            ax == Val(last.axis)
            first == shape(last.arrays[1])
            total == Sum([i \in 1..Len(last.arrays) |->
                             shape(last.arrays[i])[PyIndex(first, ax)]])
        IN  /\ HasZArray(result)
            /\ shape(result) = [first EXCEPT ![PyIndex(first, ax)] = total]

\* The chunk grid of arr has ceil(shape[i] / chunks[i]) chunks on every
\* dimension i.
Consistent(arr) ==
    /\ HasZArray(arr)
    /\ Len(arr.manifest.grid_shape) = Len(shape(arr))
    /\ \A i \in 1..Len(shape(arr)) :
           arr.manifest.grid_shape[i] = CeilDiv(shape(arr)[i], chunks(arr)[i])

\* C2 (as claimed): every array alive, loaded or returned by concatenate,
\* has a chunk grid consistent with its shape and chunk shape.
C2_GridConsistent == \A arr \in alive : Consistent(arr)

\* Two described inputs differ in dtype, in codec, or off the axis in shape.
Incompatible(arrays, axis) ==
    \E i, j \in 1..Len(arrays) :
        \/ np_dtype(Val(arrays[i].zarray).dtype)
               # np_dtype(Val(arrays[j].zarray).dtype)
        \/ Val(arrays[i].zarray).codec # Val(arrays[j].zarray).codec
        \/ Len(shape(arrays[i])) # Len(shape(arrays[j]))
        \/ \E d \in 1..Len(shape(arrays[i])) :
               /\ d # AxisDim(shape(arrays[i]), axis)
               /\ shape(arrays[i])[d] # shape(arrays[j])[d]

\* C3: concat_manifests is entered only after the dtype, shape and codec
\* checks, in that order, and a concatenate call on inputs that differ in
\* dtype, off-axis shape or codec raises without entering concat_manifests
\* and without constructing an array.
C3_ChecksBeforeMerge ==
    IsConcatenate =>
        /\ "concat_manifests" \in Calls(last.out) =>
               /\ Len(last.out.calls) >= 5
               /\ SubSeq(last.out.calls, 1, 5) =
                      <<"concatenate", "_check_same_dtypes",
                        "_check_same_shapes_except_on_concat_axis",
                        "_check_same_codecs", "concat_manifests">>
        /\ ( /\ last.axis # None
             /\ AllDescribed(last.arrays)
             /\ Incompatible(last.arrays, Val(last.axis)) ) =>
               /\ Raised(last.out)
               /\ "concat_manifests" \notin Calls(last.out)
               /\ "ManifestArray" \notin Calls(last.out)
               /\ last.out.array = None

\* Reached: inputs alike in dtype and shape but not in codec were refused by
\* the codec check.
C3_Witness ==
    /\ IsConcatenate
    /\ last.out.raised_by = "_check_same_codecs"
    /\ Len(last.arrays) = 2
    /\ Incompatible(last.arrays, Val(last.axis))

IsDispatch == last.op = "__array_function__"

C5_Refusals ==
    /\ last.op \in {"T", "to_zarr", "__array__"} =>
           /\ Raised(last.out)
           /\ last.out.exc = "NotImplementedError"
           /\ Val(last.self) \in alive
    /\ last.op = "__array_ufunc__" =>
           /\ last.out.kind = "return"
           /\ last.out.value_type = "NotImplemented"
           /\ Val(last.self) \in alive

C5_Witness ==
    /\ last.op = "__array_ufunc__"
    /\ HasZArray(Val(last.self))

\* C6: concatenate with axis None raises NotImplementedError from its own
\* first statement, whatever the arrays: no check and no merge is entered,
\* no array is returned and the inputs are alive as they were.
C6_AxisNone ==
    (IsConcatenate /\ last.axis = None) =>
        /\ Raised(last.out)
        /\ last.out.exc = "NotImplementedError"
        /\ last.out.raised_by = "concatenate"
        /\ last.out.calls = <<"concatenate">>
        /\ last.out.array = None
        /\ Range(last.arrays) \subseteq alive

\* Reached: axis None with two inputs that an integer axis would have joined.
C6_Witness ==
    /\ IsConcatenate
    /\ last.axis = None
    /\ Len(last.arrays) = 2
    /\ ~Raised(concatenate(last.arrays, Some(0)))

DtypesOf(arrays) == [i \in 1..Len(arrays) |-> dtype(arrays[i])]

ShapesOf(arrays) == [i \in 1..Len(arrays) |-> shape(arrays[i])]

CodecsOf(arrays) == [i \in 1..Len(arrays) |-> Val(arrays[i].zarray).codec]

\* The dtype check fails exactly when a dtype differs from the first, with a
\* ValueError that names a differing dtype and the first.
DtypeCheckRight ==
    (last.op = "_check_same_dtypes" /\ Len(last.arrays) >= 1) =>
        LET dts == DtypesOf(last.arrays)
        IN  /\ Raised(last.out) <=> \E i \in 1..Len(dts) : dts[i] # dts[1]
            /\ Raised(last.out) =>
                   /\ last.out.exc = "ValueError"
                   /\ Len(last.out.values) = 2
                   /\ last.out.values[1] \in Range(dts) \ {dts[1]}
                   /\ last.out.values[2] = dts[1]

\* The codec check fails exactly when a codec differs from the first, with a
\* NotImplementedError that names the first codec and a differing one.
CodecCheckRight ==
    (last.op = "_check_same_codecs" /\ Len(last.arrays) >= 1) =>
        LET cs == CodecsOf(last.arrays)
        IN  /\ Raised(last.out) <=> \E i \in 1..Len(cs) : cs[i] # cs[1]
            /\ Raised(last.out) =>
                   /\ last.out.exc = "NotImplementedError"
                   /\ Len(last.out.values) = 2
                   /\ last.out.values[1] = cs[1]
                   /\ last.out.values[2] \in Range(cs) \ {cs[1]}

\* The shape check fails exactly when a shape without its axis dimension
\* differs from the first without its own, with a ValueError that lists all
\* the shapes.
ShapeCheckRight ==
    LET shs == ShapesOf(last.arrays)
        ax == Val(last.axis)
    IN  /\ Raised(last.out) <=>
               \E i \in 1..Len(shs) : OffAxis(shs[i], ax) # OffAxis(shs[1], ax)
        /\ Raised(last.out) =>
               /\ last.out.exc = "ValueError"
               /\ last.out.values = shs

IsShapeCheck ==
    /\ last.op = "_check_same_shapes_except_on_concat_axis"
    /\ Len(last.arrays) >= 1

AxisIndexesAll(arrays, ax) ==
    \A i \in 1..Len(arrays) : IndexInRange(shape(arrays[i]), ax)

\* C7 (as claimed): each of the three checks, on a non-empty group, fails
\* exactly when an element differs from the first, and its failure carries
\* the conflicting values.
C7_ValidatorsAsClaimed ==
    /\ DtypeCheckRight
    /\ CodecCheckRight
    /\ IsShapeCheck => ShapeCheckRight

\* C7 (amended): as claimed, for the shape check when the axis indexes every
\* input shape (-rank <= axis < rank, a negative axis counting from the
\* end); for any other axis the shape check fails with an IndexError that
\* carries no shapes, whether or not the shapes differ.
C7_Validators ==
    /\ DtypeCheckRight
    /\ CodecCheckRight
    /\ IsShapeCheck =>
           IF AxisIndexesAll(last.arrays, Val(last.axis))
           THEN ShapeCheckRight
           ELSE /\ Raised(last.out)
                /\ last.out.exc = "IndexError"
                /\ last.out.values = <<>>

\* Reached: the shape check refused two shapes of equal rank that differ off
\* the axis, listing both.
C7_Witness ==
    /\ IsShapeCheck
    /\ Len(last.arrays) = 2
    /\ AxisIndexesAll(last.arrays, Val(last.axis))
    /\ last.out.raised_by = "_check_same_shapes_except_on_concat_axis"
    /\ last.out.values = ShapesOf(last.arrays)
    /\ Len(last.out.values[1]) = Len(last.out.values[2])

\* The dtype each dtype-like value denotes.
Denotes(obj) == IF obj \in {"float64", "<f8"} THEN "float64" ELSE "int32"

\* C8: result_type on a non-empty group returns the common dtype when every
\* value denotes the dtype the first denotes, and otherwise raises
\* ValueError and returns no dtype.
C8_ResultType ==
    (last.op = "result_type" /\ Len(last.dtypes) >= 1) =>
        IF \A i \in 1..Len(last.dtypes) :
               Denotes(last.dtypes[i]) = Denotes(last.dtypes[1])
        THEN /\ last.out.kind = "return"
             /\ last.out.value_type = "dtype"
             /\ last.out.dtype = Denotes(last.dtypes[1])
        ELSE /\ Raised(last.out)
             /\ last.out.exc = "ValueError"
             /\ last.out.dtype = ""

\* Reached: two spellings of one dtype were resolved to it.
C8_Witness ==
    /\ last.op = "result_type"
    /\ Len(last.dtypes) = 2
    /\ last.dtypes[1] # last.dtypes[2]
    /\ last.out.value_type = "dtype"

\* The product of the dimensions in 128 bits, which no shape here overflows.
ExactProduct(dims) ==
    LET Acc[i \in 0..Len(dims)] ==
            IF i = 0 THEN ToBytes(1, 16)
            ELSE MulBytes(Acc[i - 1], ToBytes(dims[i], 16), 16)
    IN  Acc[Len(dims)]

\* C9 (as claimed): size is the exact product of the shape's entries.
C9_SizeExact ==
    (last.op = "size" /\ HasZArray(Val(last.self))) =>
        /\ last.out.kind = "return"
        /\ Val(last.out.size) = ExactProduct(shape(Val(last.self)))

\* C10 (as claimed): concatenate enters concat_manifests only with an axis
\* 0 <= axis < rank, and for any other integer axis raises before it.
C10_AxisValidated ==
    ( /\ IsConcatenate
      /\ last.axis # None
      /\ Len(last.arrays) >= 1
      /\ AllDescribed(last.arrays) ) =>
        LET ax == Val(last.axis)
            rank == Len(shape(last.arrays[1]))
        IN  /\ "concat_manifests" \in Calls(last.out) => (0 <= ax /\ ax < rank)
            /\ ~(0 <= ax /\ ax < rank) =>
                   /\ Raised(last.out)
                   /\ "concat_manifests" \notin Calls(last.out)

=============================================================================
